---- MODULE Spec2Model ----
(***************************************************************************)
(* A model of pii_service.py: the BSN eleven-check, the e-mail name        *)
(* extraction, the whole-word search over the coverage set, the two passes *)
(* of the cross-reference handler, and the request boundary of the three   *)
(* POST endpoints.                                                         *)
(*                                                                         *)
(* A Python str is a sequence of one-character strings.  A dict is a       *)
(* record; a key the dict may lack is a field the record may lack, read    *)
(* with Get (dict.get).  Scores are in hundredths (0.7 is 70).             *)
(***************************************************************************)
EXTENDS Integers, Sequences, FiniteSets, TLC

VARIABLES
    text,                \* cross_reference: data["text"]
    findings,            \* cross_reference: data["findings"]
    additional_findings, \* cross_reference: the accumulator
    pc,                  \* where the function or handler under way stands
    i,                   \* Pass 1: index of the next finding of the for loop
    call,                \* which request of the caller is being handled
    first_additional,    \* the caller's copy of the first response
    pattern_text,        \* validate_result: its argument, built digit by digit
    bsn_valid,           \* validate_result: "True", "False" or the exception
    email_text,          \* extract_names_from_email: its argument
    names,               \* extract_names_from_email: its return value
    request,             \* an endpoint's request
    response,            \* an endpoint's response
    log,                 \* what logger.error has written
    processed            \* whether the endpoint's detection or search ran

xrefVars  == <<text, findings, additional_findings, pc, i, call, first_additional>>
bsnVars   == <<pattern_text, bsn_valid>>
emailVars == <<email_text, names>>
httpVars  == <<request, response, log, processed>>
vars      == <<xrefVars, bsnVars, emailVars, httpVars>>

xrefVarsButPc == <<text, findings, additional_findings, i, call, first_additional>>

-----------------------------------------------------------------------------
(* Characters and str methods *)

LowerLetters == <<"a","b","c","d","e","f","g","h","i","j","k","l","m","n","o","p","q","r","s","t","u","v","w","x","y","z">>
UpperLetters == <<"A","B","C","D","E","F","G","H","I","J","K","L","M","N","O","P","Q","R","S","T","U","V","W","X","Y","Z">>
DigitChars   == <<"0","1","2","3","4","5","6","7","8","9">>

Range(s) == {s[k] : k \in DOMAIN s}

Letters == Range(LowerLetters) \cup Range(UpperLetters)

Whitespace == {" ", "\t", "\n", "\r"}

ToLowerMap ==
    [c \in Range(UpperLetters) |->
        LowerLetters[CHOOSE k \in DOMAIN UpperLetters : UpperLetters[k] = c]]

LowerChar(c) == IF c \in DOMAIN ToLowerMap THEN ToLowerMap[c] ELSE c

\* str.lower()
lower(s) == [k \in 1..Len(s) |-> LowerChar(s[k])]

\* str.isalpha(): non-empty and every character a letter
isalpha(s) == Len(s) > 0 /\ \A k \in 1..Len(s) : s[k] \in Letters

\* the regex class \w (ASCII): letters, digits and the underscore
IsWordChar(c) == c \in Letters \cup Range(DigitChars) \cup {"_"}

\* str.strip(): without its leading and trailing whitespace
strip(s) ==
    LET inner == {k \in 1..Len(s) : s[k] \notin Whitespace}
    IN  IF inner = {} THEN <<>>
        ELSE LET lo == CHOOSE k \in inner : \A m \in inner : k <= m
                 hi == CHOOSE k \in inner : \A m \in inner : k >= m
             IN  SubSeq(s, lo, hi)

\* dict.get(key, default)
Get(f, key, default) == IF key \in DOMAIN f THEN f[key] ELSE default

-----------------------------------------------------------------------------
(* Lexicon filters *)

SKIP_WORDS ==
    { <<"d","e">>, <<"h","e","t">>, <<"e","e","n">>,
      <<"v","a","n">>, <<"i","n">>, <<"o","p">>,
      <<"t","e">>, <<"e","n">>, <<"i","s">>,
      <<"d","a","t">>, <<"d","i","e">>, <<"v","o","o","r">>,
      <<"m","e","t">>, <<"z","i","j","n">>, <<"n","a","a","r">>,
      <<"a","a","n">>, <<"b","i","j">>, <<"u","i","t">>,
      <<"a","l","s">>, <<"m","a","a","r">>, <<"n","o","g">>,
      <<"w","e","l">>, <<"n","i","e","t">>, <<"o","o","k">>,
      <<"d","a","n">>, <<"k","a","n">>, <<"m","o","e","t">>,
      <<"z","o","u">>, <<"z","a","l">>, <<"h","e","e","f","t">>,
      <<"w","o","r","d","t">>, <<"w","e","r","d">>, <<"g","e","e","n">>,
      <<"m","e","e","r">>, <<"v","e","e","l">>, <<"g","o","e","d">>,
      <<"n","a","a","m">>, <<"n","a","a","m",":">>, <<"e","m","a","i","l">>,
      <<"t","e","l","e","f","o","o","n">>, <<"a","d","r","e","s">>, <<"s","t","r","a","a","t">>,
      <<"t","r","u","e">>, <<"f","a","l","s","e">>, <<"n","u","l","l">>,
      <<"n","o","n","e">>, <<"y","e","s">>, <<"n","o">>,
      <<"t","h","e">>, <<"a","n","d">>, <<"f","o","r">>,
      <<"w","i","t","h">> }

TUSSENVOEGSELS ==
    { <<"v","a","n">>, <<"d","e">>, <<"d","e","n">>,
      <<"d","e","r">>, <<"h","e","t">>, <<"t","e","n">>,
      <<"t","e","r">>, <<"t","e">>, <<"i","n">>,
      <<"o","p">>, <<"a","a","n">>, <<"b","i","j">>,
      <<"t","o","t">>, <<"u","i","t">>, <<"v","o","n">>,
      <<"l","a">>, <<"l","e">>, <<"d","u">>,
      <<"d","e","s">> }

-----------------------------------------------------------------------------
(* extract_names_from_email *)

\* re.split(r'[._\-]', s): the pieces between the separators, empty ones kept
RECURSIVE resplit(_)
resplit(s) ==
    LET seps == {k \in 1..Len(s) : s[k] \in {".", "_", "-"}}
    IN  IF seps = {} THEN <<s>>
        ELSE LET k == CHOOSE m \in seps : \A n \in seps : m <= n
             IN  <<SubSeq(s, 1, k - 1)>> \o resplit(SubSeq(s, k + 1, Len(s)))

\* email_text.split("@")[0] if "@" in email_text else ""
LocalPart(e) ==
    LET ats == {k \in 1..Len(e) : e[k] = "@"}
    IN  IF ats = {} THEN <<>>
        ELSE SubSeq(e, 1, (CHOOSE m \in ats : \A n \in ats : m <= n) - 1)

\* IsNamePart, were the part looked up in the lexicons as it is written
IsNamePartAsWritten(part) ==
    /\ Len(part) >= 2
    /\ isalpha(part)
    /\ part \notin SKIP_WORDS
    /\ part \notin TUSSENVOEGSELS

\* the test of one part, after part.strip()
IsNamePart(part) ==
    /\ Len(part) >= 2
    /\ isalpha(part)
    /\ lower(part) \notin SKIP_WORDS
    /\ lower(part) \notin TUSSENVOEGSELS

MinLocalLen == 3

extract_names_from_email(e) ==
    LET local == LocalPart(e)
    IN  IF Len(local) = 0 \/ Len(local) < MinLocalLen THEN <<>>
        ELSE LET parts    == resplit(local)
                 stripped == [k \in 1..Len(parts) |-> strip(parts[k])]
             IN  SelectSeq(stripped, IsNamePart)

-----------------------------------------------------------------------------
(* find_additional_occurrences *)

\* whether position p of t (0-based, between t[p] and t[p+1]) is a \b
WordAt(t, k) == k \in 1..Len(t) /\ IsWordChar(t[k])

Boundary(t, p) == WordAt(t, p) # WordAt(t, p + 1)

\* \b + re.escape(value) + \b, re.IGNORECASE, matching t at offset p
MatchAt(t, value, p) ==
    /\ p + Len(value) <= Len(t)
    /\ \A k \in 1..Len(value) : LowerChar(t[p + k]) = LowerChar(value[k])
    /\ Boundary(t, p)
    /\ Boundary(t, p + Len(value))

\* pattern.finditer(text): the leftmost match, then on from its end
RECURSIVE finditer(_, _, _)
finditer(t, value, pos) ==
    LET starts == {p \in pos..Len(t) : MatchAt(t, value, p)}
    IN  IF starts = {} THEN <<>>
        ELSE LET p == CHOOSE m \in starts : \A n \in starts : m <= n
             IN  <<[start |-> p, end |-> p + Len(value)]>>
                 \o finditer(t, value, p + Len(value))

\* the covered set: every position of every finding's range(start, end)
Covered(existing_findings) ==
    UNION {Get(existing_findings[k], "start", 0)
             .. (Get(existing_findings[k], "end", 0) - 1)
           : k \in DOMAIN existing_findings}

\* Uncovered, were a span turned down only when every position of it is
\* covered
UncoveredUnlessContained(m, covered) ==
    ~((m.start .. (m.end - 1)) \subseteq covered)

\* not any(i in covered for i in range(start, end))
Uncovered(m, covered) == (m.start .. (m.end - 1)) \cap covered = {}

MinValueLen == 3

find_additional_occurrences(t, value, existing_findings) ==
    IF Len(value) < MinValueLen THEN <<>>
    ELSE LET covered == Covered(existing_findings)
             free(m) == Uncovered(m, covered)
             hits    == SelectSeq(finditer(t, value, 0), free)
         IN  [k \in 1..Len(hits) |->
                [start   |-> hits[k].start,
                 end     |-> hits[k].end,
                 matched |-> SubSeq(t, hits[k].start + 1, hits[k].end)]]

-----------------------------------------------------------------------------
(* cross_reference *)

DefaultScore == 70
EmailNameScore == 50

MinSeedLen == 3

\* SkipsValue, were the value looked up in the lexicons as it is written
SkipsValueAsWritten(value) ==
    \/ Len(value) < MinSeedLen
    \/ value \in SKIP_WORDS
    \/ value \in TUSSENVOEGSELS

\* the skip test of Pass 1
SkipsValue(value) ==
    \/ Len(value) < MinSeedLen
    \/ lower(value) \in SKIP_WORDS
    \/ lower(value) \in TUSSENVOEGSELS

\* Propagated, were a finding without a score given the score of Pass 2
PropagatedWithNameScore(f, occ) ==
    [entity_type |-> Get(f, "entity_type", ""),
     start       |-> occ.start,
     end         |-> occ.end,
     score       |-> Get(f, "score", EmailNameScore),
     text        |-> occ.matched,
     source      |-> "cross-reference",
     reason      |-> "value-propagation"]

\* the dict appended in Pass 1
Propagated(f, occ) ==
    [entity_type |-> Get(f, "entity_type", ""),
     start       |-> occ.start,
     end         |-> occ.end,
     score       |-> Get(f, "score", DefaultScore),
     text        |-> occ.matched,
     source      |-> "cross-reference",
     reason      |-> "value-propagation"]

\* the dict appended in Pass 2
Extracted(occ) ==
    [entity_type |-> "PERSON",
     start       |-> occ.start,
     end         |-> occ.end,
     score       |-> EmailNameScore,
     text        |-> occ.matched,
     source      |-> "cross-reference",
     reason      |-> "email-extraction"]

\* Pass1Body, were the search given the accumulator alone as the findings
\* that cover the text
Pass1BodyOwnCoverage(t, fs, f, acc) ==
    LET value == Get(f, "text", <<>>)
    IN  IF SkipsValue(value) THEN acc
        ELSE LET occurrences == find_additional_occurrences(t, value, acc)
             IN  acc \o [k \in 1..Len(occurrences) |-> Propagated(f, occurrences[k])]

\* one iteration of the Pass 1 loop for finding f, from accumulator acc
Pass1Body(t, fs, f, acc) ==
    LET value == Get(f, "text", <<>>)
    IN  IF SkipsValue(value) THEN acc
        ELSE LET occurrences == find_additional_occurrences(t, value, fs \o acc)
             IN  acc \o [k \in 1..Len(occurrences) |-> Propagated(f, occurrences[k])]

IsEmailType(f) == Get(f, "entity_type", "") \in {"EMAIL_ADDRESS", "email"}

\* email_findings = [f for f in findings if ...]
email_findings(fs) == SelectSeq(fs, IsEmailType)

\* the inner loop of Pass 2 over names[k..], from accumulator acc
RECURSIVE NamesLoop(_, _, _, _, _)
NamesLoop(t, fs, ns, k, acc) ==
    IF k > Len(ns) THEN acc
    ELSE LET occurrences == find_additional_occurrences(t, ns[k], fs \o acc)
         IN  NamesLoop(t, fs, ns, k + 1,
                 acc \o [m \in 1..Len(occurrences) |-> Extracted(occurrences[m])])

\* one iteration of the Pass 2 loop for e-mail finding ef
Pass2Body(t, fs, ef, acc) ==
    NamesLoop(t, fs, extract_names_from_email(Get(ef, "text", <<>>)), 1, acc)

\* Pass 2: the loop over efs[k..], from accumulator acc
RECURSIVE EmailLoop(_, _, _, _, _)
EmailLoop(t, fs, efs, k, acc) ==
    IF k > Len(efs) THEN acc
    ELSE EmailLoop(t, fs, efs, k + 1, Pass2Body(t, fs, efs[k], acc))

\* the values of the variables a specification does not use
IdleXref ==
    /\ text = <<>> /\ findings = <<>> /\ additional_findings = <<>>
    /\ i = 0 /\ call = 0 /\ first_additional = <<>>

IdleBsn == pattern_text = <<>> /\ bsn_valid = "none"

IdleEmail == email_text = <<>> /\ names = <<>>

NoRequest == [endpoint |-> "none", json |-> "null", keys |-> {}, text_len |-> 0]

NoResponse == [status |-> 0]

IdleHttp ==
    /\ request = NoRequest /\ response = NoResponse
    /\ log = <<>> /\ processed = FALSE

\* Pass1Step, were the new findings also appended to the findings received,
\* to have them covered
Pass1StepAppendsToInput ==
    /\ pc = "pass1"
    /\ i <= Len(findings)
    /\ LET new == Pass1Body(text, findings, findings[i], <<>>)
       IN  /\ findings' = findings \o new
           /\ additional_findings' = additional_findings \o new
    /\ i' = i + 1
    /\ UNCHANGED <<text, pc, call, first_additional>>
    /\ UNCHANGED <<bsnVars, emailVars, httpVars>>

\* Pass 1, one iteration of `for f in findings`
Pass1Step ==
    /\ pc = "pass1"
    /\ i <= Len(findings)
    /\ additional_findings' =
           Pass1Body(text, findings, findings[i], additional_findings)
    /\ i' = i + 1
    /\ UNCHANGED <<text, findings, pc, call, first_additional>>
    /\ UNCHANGED <<bsnVars, emailVars, httpVars>>

\* Pass 2 and the return: every e-mail finding in turn, then
\* jsonify({"additional_findings": ..., "count": ...})
Pass2 ==
    /\ pc = "pass1"
    /\ i > Len(findings)
    /\ additional_findings' =
           EmailLoop(text, findings, email_findings(findings), 1, additional_findings)
    /\ pc' = "done"
    /\ response' = [status |-> 200,
                    error |-> <<>>,
                    additional_findings |-> additional_findings',
                    count |-> Len(additional_findings')]
    /\ UNCHANGED <<text, findings, i, call, first_additional>>
    /\ UNCHANGED <<bsnVars, emailVars, request, log, processed>>

-----------------------------------------------------------------------------
(* The requests the cross-reference handler is run on *)

MaxWords == 3
MaxFindings == 2

\* the words a document is made of: a one-letter word (a value of the form
\* "e e" overlaps itself), a plain word, a stop word, a word that holds the
\* plain word as a part of a token
Vocabulary ==
    { <<"e">>, <<"n", "e", "e">>, <<"e", "e", "n">>, <<"n", "e", "e", "n">> }

\* the words of ws with one space between them
RECURSIVE JoinWords(_)
JoinWords(ws) ==
    IF Len(ws) = 0 THEN <<>>
    ELSE IF Len(ws) = 1 THEN ws[1]
    ELSE ws[1] \o <<" ">> \o JoinWords(Tail(ws))

Texts == {JoinWords(ws) : ws \in UNION {[1..n -> Vocabulary] : n \in 0..MaxWords}}

\* what a caller may send of a finding besides its range: a value that
\* overlaps itself (no score), an e-mail address of two names, a capitalised
\* stop word, a plain word
SeedTemplates ==
    { [entity_type |-> "PERSON", text |-> <<"E", " ", "e">>],
      [entity_type |-> "EMAIL_ADDRESS", score |-> 90,
       text |-> <<"N", "e", "e", "n", ".", "n", "e", "e", "@", "n">>],
      [entity_type |-> "ORGANIZATION", score |-> 80, text |-> <<"E", "e", "n">>],
      [entity_type |-> "LOCATION", score |-> 60, text |-> <<"n", "e", "e">>] }

\* the ranges a finding may claim: the first character, or the characters a
\* second word takes after a first word of three letters
SeedRanges == {<<0, 1>>, <<4, 7>>}

\* a finding with a range, and a finding without its "start" and "end"
InputFindings ==
    {[start |-> r[1], end |-> r[2]] @@ t : t \in SeedTemplates, r \in SeedRanges}
        \cup {t \in SeedTemplates : t.entity_type \in {"PERSON", "EMAIL_ADDRESS"}}

FindingLists == UNION {[1..n -> InputFindings] : n \in 0..MaxFindings}

InitXref ==
    /\ text \in Texts
    /\ findings \in FindingLists
    /\ additional_findings = <<>>
    /\ pc = "pass1" /\ i = 1
    /\ call = 1 /\ first_additional = <<>>
    /\ IdleBsn /\ IdleEmail /\ IdleHttp

NextXref == Pass1Step \/ Pass2

Spec == InitXref /\ [][NextXref]_vars

\* the caller of the fixpoint property: a second request on the same text
\* with the first response's findings appended to the findings it sent
SecondCall ==
    /\ pc = "done"
    /\ call = 1
    /\ first_additional' = additional_findings
    /\ findings' = findings \o additional_findings
    /\ additional_findings' = <<>>
    /\ pc' = "pass1" /\ i' = 1
    /\ call' = 2
    /\ response' = NoResponse
    /\ UNCHANGED <<text, bsnVars, emailVars, request, log, processed>>

NextFixpoint == NextXref \/ SecondCall

SpecFixpoint == InitXref /\ [][NextFixpoint]_vars

-----------------------------------------------------------------------------
(* BsnRecognizer.validate_result *)

\* int(d) of a digit character
DigitValue(c) == (CHOOSE k \in DOMAIN DigitChars : DigitChars[k] = c) - 1

\* re.match(r"^[0-9]{9}$", s): nine digits, and $ also matches before a
\* newline that ends the string
MatchesNineDigits(s) ==
    /\ Len(s) \in {9, 10}
    /\ \A k \in 1..9 : s[k] \in Range(DigitChars)
    /\ Len(s) = 10 => s[10] = "\n"

\* validate_result, were the test total != 0 left out
validate_resultWithoutZeroTest(s) ==
    IF ~MatchesNineDigits(s) THEN "False"
    ELSE IF \E k \in 1..Len(s) : s[k] \notin Range(DigitChars) THEN "ValueError"
    ELSE LET digits == [k \in 1..Len(s) |-> DigitValue(s[k])]
             total  == 9 * digits[1] + 8 * digits[2] + 7 * digits[3] +
                       6 * digits[4] + 5 * digits[5] + 4 * digits[6] +
                       3 * digits[7] + 2 * digits[8] - 1 * digits[9]
         IN  IF total % 11 = 0 THEN "True" ELSE "False"

validate_result(s) ==
    IF ~MatchesNineDigits(s) THEN "False"
    ELSE IF \E k \in 1..Len(s) : s[k] \notin Range(DigitChars) THEN "ValueError"
    ELSE LET digits == [k \in 1..Len(s) |-> DigitValue(s[k])]
             total  == 9 * digits[1] + 8 * digits[2] + 7 * digits[3] +
                       6 * digits[4] + 5 * digits[5] + 4 * digits[6] +
                       3 * digits[7] + 2 * digits[8] - 1 * digits[9]
         IN  IF total % 11 = 0 /\ total # 0 THEN "True" ELSE "False"

\* the call of validate_result on pattern_text
ValidateResult ==
    /\ pc = "validate"
    /\ bsn_valid' = validate_result(pattern_text)
    /\ pc' = "done"
    /\ UNCHANGED <<pattern_text, text, findings, additional_findings, i, call,
                   first_additional, emailVars, httpVars>>

MaxDigit == 3

DigitChoices == {DigitChars[d + 1] : d \in 0..MaxDigit}

\* strings the pattern of the recognizer cannot hand over: too short, not
\* digits, a newline after the digits
MalformedTexts ==
    { <<>>,
      <<"1", "1", "1", "2", "2", "2", "3", "3">>,
      <<"1", "1", "1", "2", "2", "2", "3", "3", "x">>,
      <<"1", "1", "1", "2", "2", "2", "3", "3", "3", "\n">>,
      <<"1", "1", "1", "2", "2", "2", "3", "3", "3", "3">> }

InitBsn ==
    /\ pattern_text \in [1..9 -> DigitChoices] \cup MalformedTexts
    /\ bsn_valid = "none"
    /\ pc = "validate"
    /\ IdleXref /\ IdleEmail /\ IdleHttp

NextBsn == ValidateResult

SpecBsn == InitBsn /\ [][NextBsn]_vars

-----------------------------------------------------------------------------
(* The calls of extract_names_from_email *)

ExtractNames ==
    /\ pc = "extract"
    /\ names' = extract_names_from_email(email_text)
    /\ pc' = "done"
    /\ UNCHANGED <<email_text, text, findings, additional_findings, i, call,
                   first_additional, bsnVars, httpVars>>

MaxEmailLen == 6

\* two letters that spell the prefix "de", a capital, two of the three
\* separators, the at sign, a space
EmailChars == {"d", "e", "D", ".", "-", "@", " "}

InitEmail ==
    /\ email_text \in UNION {[1..n -> EmailChars] : n \in 0..MaxEmailLen}
    /\ names = <<>>
    /\ pc = "extract"
    /\ IdleXref /\ IdleBsn /\ IdleHttp

NextEmail == ExtractNames

SpecEmail == InitEmail /\ [][NextEmail]_vars

-----------------------------------------------------------------------------
(* The request boundary of the three POST endpoints.  A request is the      *)
(* parsed JSON body, with its text known by its length; what the analyzer,  *)
(* the de-identifier and the search return is known by its count.           *)

MaxTextSize == 2 * 1024 * 1024

\* not data: no JSON body, or an empty object
NoData(r) == r.json = "null" \/ r.keys = {}

BadRequest(msg) == [status |-> 400, error |-> <<msg>>, count |-> 0]

Found(n) == [status |-> 200, error |-> <<>>, count |-> n]

\* {"error": f"Analysis failed: {str(e)}"}, 500
AnalysisFailed(e) == [status |-> 500, error |-> <<"Analysis failed: ", e>>, count |-> 0]

MaxResults == 2

\* what str(e) may be of an exception the analyzer or de-identifier raises
ExceptionTexts ==
    { "[E050] Can't find model 'nl_core_news_lg'",
      "[Errno 2] No such file or directory: '/srv/pii/lookup/names.txt'" }

\* the handler of /api/cross-reference up to its passes, which the
\* specification Spec takes step by step
cross_reference ==
    /\ pc = "request"
    /\ request.endpoint = "/api/cross-reference"
    /\ IF NoData(request) \/ "text" \notin request.keys
             \/ "findings" \notin request.keys
       THEN /\ response' = BadRequest("Requires 'text' and 'findings'")
            /\ UNCHANGED processed
       ELSE /\ processed' = TRUE
            /\ \E n \in 0..MaxResults : response' = Found(n)
    /\ pc' = "done"
    /\ UNCHANGED <<request, log, xrefVarsButPc, bsnVars, emailVars>>

analyze_presidio ==
    /\ pc = "request"
    /\ request.endpoint = "/api/presidio"
    /\ IF NoData(request) \/ "text" \notin request.keys
       THEN /\ response' = BadRequest("No text provided")
            /\ UNCHANGED <<log, processed>>
       ELSE IF request.text_len > MaxTextSize
       THEN /\ response' = BadRequest("Text too large (max 2MB)")
            /\ UNCHANGED <<log, processed>>
       ELSE /\ processed' = TRUE
            /\ \/ \E n \in 0..MaxResults :
                     /\ response' = Found(n)
                     /\ UNCHANGED log
               \/ \E e \in ExceptionTexts :
                     /\ log' = Append(log, <<"Presidio analysis failed: ", e>>)
                     /\ response' = AnalysisFailed(e)
    /\ pc' = "done"
    /\ UNCHANGED <<request, xrefVarsButPc, bsnVars, emailVars>>

analyze_deduce ==
    /\ pc = "request"
    /\ request.endpoint = "/api/deduce"
    /\ IF NoData(request) \/ "text" \notin request.keys
       THEN /\ response' = BadRequest("No text provided")
            /\ UNCHANGED <<log, processed>>
       ELSE IF request.text_len > MaxTextSize
       THEN /\ response' = BadRequest("Text too large (max 2MB)")
            /\ UNCHANGED <<log, processed>>
       ELSE /\ processed' = TRUE
            /\ \/ \E n \in 0..MaxResults :
                     /\ response' = Found(n)
                     /\ UNCHANGED log
               \/ \E e \in ExceptionTexts :
                     /\ log' = Append(log, <<"Deduce analysis failed: ", e>>)
                     /\ response' = AnalysisFailed(e)
    /\ pc' = "done"
    /\ UNCHANGED <<request, xrefVarsButPc, bsnVars, emailVars>>

\* the lengths of a text: empty, short, the largest allowed, one more
TextLengths == {0, 1, MaxTextSize, MaxTextSize + 1}

Requests ==
    { [endpoint |-> ep, json |-> js, keys |-> ks, text_len |-> n] :
        ep \in {"/api/cross-reference", "/api/presidio", "/api/deduce"},
        js \in {"null", "object"},
        ks \in SUBSET {"text", "findings", "threshold"},
        n \in TextLengths }

InitHttp ==
    /\ request \in {r \in Requests :
                      /\ r.json = "null" => r.keys = {}
                      /\ "text" \notin r.keys => r.text_len = 0}
    /\ response = NoResponse
    /\ log = <<>>
    /\ processed = FALSE
    /\ pc = "request"
    /\ IdleXref /\ IdleBsn /\ IdleEmail

NextHttp == cross_reference \/ analyze_presidio \/ analyze_deduce

SpecHttp == InitHttp /\ [][NextHttp]_vars

-----------------------------------------------------------------------------
(* Properties of the cross-reference handler *)

AllFindings == findings \o additional_findings

\* the character positions of a finding's half-open range
Positions(f) == Get(f, "start", 0) .. (Get(f, "end", 0) - 1)

\* whether a value may seed Pass 1, said from the lexicon filters themselves
EligibleSeed(value) ==
    /\ Len(value) >= 3
    /\ lower(value) \notin (SKIP_WORDS \cup TUSSENVOEGSELS)

\* the offsets at which value stands in t as a whole word, whatever its case
WholeWordOccurrences(t, value) == {p \in 0..Len(t) : MatchAt(t, value, p)}

\* C1 as stated: after cross_reference returns, no two distinct findings of
\* (input findings, then additional findings) share a character position.
C1_NoTwoFindingsOverlap ==
    pc = "done" =>
        \A a, b \in DOMAIN AllFindings :
            AllFindings[a] # AllFindings[b] =>
                Positions(AllFindings[a]) \cap Positions(AllFindings[b]) = {}

\* C1 amended: at every step, an additional finding shares no character
\* position with any other finding, input or additional; a candidate that
\* overlaps a covered range only in part is never among them.
C1_AdditionalOverlapNothing ==
    \A a \in DOMAIN additional_findings :
        \A b \in DOMAIN AllFindings :
            b # Len(findings) + a =>
                Positions(additional_findings[a]) \cap Positions(AllFindings[b]) = {}

\* C1 witness: the handler has returned two additional findings, and a
\* whole-word occurrence of an eligible seed that overlaps an input finding
\* only in part is not among them.
C1_Witness ==
    /\ pc = "done"
    /\ Len(additional_findings) >= 2
    /\ \E k \in DOMAIN findings :
          /\ EligibleSeed(findings[k].text)
          /\ \E p \in WholeWordOccurrences(text, findings[k].text) :
                LET span == p .. (p + Len(findings[k].text) - 1)
                IN  /\ span \cap Covered(findings) # {}
                    /\ ~(span \subseteq Covered(findings))
                    /\ \A a \in DOMAIN additional_findings :
                          additional_findings[a].start # p

\* C2: in the second request, on the findings followed by the first
\* response's additional findings, nothing is ever added, in Pass 1 or in
\* Pass 2, and the count returned is 0.
C2_SecondCallAddsNothing ==
    call = 2 =>
        /\ additional_findings = <<>>
        /\ pc = "done" => response.count = 0

\* C2 witness: the second request has returned, the first one having added
\* a value-propagation and an email-extraction finding.
C2_Witness ==
    /\ call = 2
    /\ pc = "done"
    /\ \E a, b \in DOMAIN first_additional :
          /\ first_additional[a].reason = "value-propagation"
          /\ first_additional[b].reason = "email-extraction"

\* C5: the Pass 1 iteration of a finding whose text is shorter than 3
\* characters, or whose lowercased text is a stop word or a grammatical
\* prefix, leaves the additional findings as they are.
C5_StopWordNeverSeeds ==
    [][(pc = "pass1" /\ i <= Len(findings)
            /\ ~EligibleSeed(Get(findings[i], "text", <<>>)))
        => additional_findings' = additional_findings]_vars

\* C5 witness: Pass 1 has just passed over a capitalised stop word of three
\* letters that stands in the document as a whole word no finding covers.
C5_Witness ==
    /\ pc = "pass1"
    /\ i > 1
    /\ LET value == findings[i - 1].text
       IN  /\ Len(value) >= 3
           /\ value # lower(value)
           /\ lower(value) \in SKIP_WORDS
           /\ \E p \in WholeWordOccurrences(text, value) :
                 (p .. (p + Len(value) - 1)) \cap Covered(AllFindings) = {}

\* whether name is one of the pieces of e between separators, before its "@"
IsPieceOfLocalPart(name, e) ==
    \E a \in 1..Len(e), b \in 1..(Len(e) - 1) :
        /\ SubSeq(e, a, b) = name
        /\ \A k \in 1..b : e[k] # "@"
        /\ \A k \in a..b : e[k] \notin {".", "_", "-"}
        /\ a = 1 \/ e[a - 1] \in {".", "_", "-"}
        /\ e[b + 1] \in {".", "_", "-", "@"}

\* C6: every additional finding has source cross-reference and is either a
\* value-propagation with the type and the score (0.7 when it has none) of an
\* eligible input finding of the same value, or an email-extraction of type
\* PERSON and score 0.5 whose text is a piece of the local part of an input
\* finding of an e-mail type.
C6_AdditionalFindingsTagged ==
    \A a \in DOMAIN additional_findings :
        LET af == additional_findings[a]
        IN  /\ af.source = "cross-reference"
            /\ \/ /\ af.reason = "value-propagation"
                  /\ \E k \in DOMAIN findings :
                        /\ EligibleSeed(findings[k].text)
                        /\ lower(findings[k].text) = lower(af.text)
                        /\ af.entity_type = findings[k].entity_type
                        /\ af.score = IF "score" \in DOMAIN findings[k]
                                      THEN findings[k].score ELSE 70
               \/ /\ af.reason = "email-extraction"
                  /\ af.entity_type = "PERSON"
                  /\ af.score = 50
                  /\ \E k \in DOMAIN findings :
                        /\ findings[k].entity_type \in {"EMAIL_ADDRESS", "email"}
                        /\ \E x, y \in 1..Len(findings[k].text) :
                              /\ IsPieceOfLocalPart(SubSeq(findings[k].text, x, y),
                                                    findings[k].text)
                              /\ lower(SubSeq(findings[k].text, x, y)) = lower(af.text)

\* C6 witness: the handler has returned a value-propagation finding seeded
\* by a finding without a score, and an email-extraction finding.
C6_Witness ==
    /\ pc = "done"
    /\ \E a, b \in DOMAIN additional_findings :
          /\ additional_findings[a].reason = "value-propagation"
          /\ additional_findings[a].score = 70
          /\ additional_findings[b].reason = "email-extraction"

\* whether s is the beginning of t
IsPrefix(s, t) == Len(s) <= Len(t) /\ SubSeq(t, 1, Len(s)) = s

\* C7: no step of the handler changes the text or the input findings, and
\* every step leaves the additional findings it found as they were, in
\* place, with the new ones after them.
C7_InputNeverMutated ==
    [][/\ text' = text
       /\ findings' = findings
       /\ IsPrefix(additional_findings, additional_findings')]_vars

\* C7 witness: the handler has returned, having added findings in Pass 1 and
\* then in Pass 2 to at least two input findings.
C7_Witness ==
    /\ pc = "done"
    /\ Len(findings) >= 2
    /\ \E a, b \in DOMAIN additional_findings :
          /\ a < b
          /\ additional_findings[a].reason = "value-propagation"
          /\ additional_findings[b].reason = "email-extraction"
          /\ additional_findings[b].start < additional_findings[a].start

\* C10 as stated: after cross_reference returns, every whole-word occurrence
\* of every eligible seed value shares a character position with a finding.
C10_EveryOccurrenceCovered ==
    pc = "done" =>
        \A k \in DOMAIN findings :
            EligibleSeed(Get(findings[k], "text", <<>>)) =>
                \A p \in WholeWordOccurrences(text, findings[k].text) :
                    (p .. (p + Len(findings[k].text) - 1))
                        \cap Covered(AllFindings) # {}

-----------------------------------------------------------------------------
(* Properties of validate_result *)

Weights == <<9, 8, 7, 6, 5, 4, 3, 2, -1>>

RECURSIVE WeightedSum(_, _)
WeightedSum(s, k) ==
    IF k = 0 THEN 0 ELSE WeightedSum(s, k - 1) + Weights[k] * DigitValue(s[k])

IsNineDigits(s) == Len(s) = 9 /\ \A k \in 1..9 : s[k] \in Range(DigitChars)

\* C3: of nine digits d0..d8, validate_result holds exactly when
\* T = 9*d0 + 8*d1 + ... + 2*d7 - d8 is a multiple of 11 other than 0, be T
\* negative or not; nine zeros and nine ones are invalid.
C3_ElevenCheck ==
    (pc = "done" /\ IsNineDigits(pattern_text)) =>
        LET T == WeightedSum(pattern_text, 9)
        IN  /\ bsn_valid = "True" <=> (T % 11 = 0 /\ T # 0)
            /\ bsn_valid \in {"True", "False"}
            /\ (\A k \in 1..9 : pattern_text[k] = "0") => bsn_valid = "False"
            /\ (\A k \in 1..9 : pattern_text[k] = "1") => (T = 43 /\ bsn_valid = "False")
            /\ T < 0 => bsn_valid = "False"

\* C3 witness: validate_result has accepted nine digits, their sum a
\* multiple of 11 other than 0.
C3_Witness ==
    /\ pc = "done"
    /\ IsNineDigits(pattern_text)
    /\ bsn_valid = "True"
    /\ WeightedSum(pattern_text, 9) # 0

-----------------------------------------------------------------------------
(* Properties of extract_names_from_email *)

Separators == {".", "_", "-"}

\* what stands before the first "@" of e; nothing when e has none
BeforeAt(e) ==
    IF \A k \in 1..Len(e) : e[k] # "@" THEN <<>>
    ELSE SubSeq(e, 1, Cardinality({k \in 1..Len(e) : \A m \in 1..k : e[m] # "@"}))

\* the n-th separator of s, counted from 1; 0 before them, Len(s) + 1 after
SeparatorAt(s, n) ==
    LET seps == {k \in 1..Len(s) : s[k] \in Separators}
    IN  IF n = 0 THEN 0
        ELSE IF n > Cardinality(seps) THEN Len(s) + 1
        ELSE CHOOSE k \in seps : Cardinality({m \in seps : m <= k}) = n

\* the pieces of s between its separators, in order
Pieces(s) ==
    LET count == Cardinality({k \in 1..Len(s) : s[k] \in Separators})
    IN  [n \in 1..(count + 1) |->
            SubSeq(s, SeparatorAt(s, n - 1) + 1, SeparatorAt(s, n) - 1)]

IsCandidate(piece) ==
    /\ isalpha(piece)
    /\ Len(piece) >= 2
    /\ lower(piece) \notin SKIP_WORDS
    /\ lower(piece) \notin TUSSENVOEGSELS

\* a piece without the whitespace around it
Trimmed(piece) ==
    IF \A k \in 1..Len(piece) : piece[k] \in Whitespace THEN <<>>
    ELSE SubSeq(piece,
                1 + Cardinality({k \in 1..Len(piece) :
                                    \A m \in 1..k : piece[m] \in Whitespace}),
                Len(piece) - Cardinality({k \in 1..Len(piece) :
                                    \A m \in k..Len(piece) : piece[m] \in Whitespace}))

\* the names of the address jan.de.vries@test.nl
JanDeVriesNames ==
    extract_names_from_email(
        <<"j", "a", "n", ".", "d", "e", ".", "v", "r", "i", "e", "s", "@",
          "t", "e", "s", "t", ".", "n", "l">>)

\* C4 as stated: the names returned are exactly the pieces of the local part
\* that are alphabetic, at least 2 long and in neither lexicon filter, for
\* every local part.
C4_NamesAreCandidatePieces ==
    pc = "done" => names = SelectSeq(Pieces(BeforeAt(email_text)), IsCandidate)

\* C4 amended: when the local part is at least 3 characters long, the names
\* returned are exactly its pieces, each without the whitespace around it,
\* that are alphabetic, at least 2 long and in neither lexicon filter; when
\* it is shorter, or there is no "@", no name is returned.  The local part
\* jan.de.vries gives jan and vries.
C4_NamesOfLongLocalParts ==
    pc = "done" =>
        LET local   == BeforeAt(email_text)
            pieces  == Pieces(local)
            trimmed == [n \in 1..Len(pieces) |-> Trimmed(pieces[n])]
        IN  /\ names = IF Len(local) >= 3 THEN SelectSeq(trimmed, IsCandidate)
                                            ELSE <<>>
            /\ JanDeVriesNames = << <<"j", "a", "n">>, <<"v", "r", "i", "e", "s">> >>

\* C4 witness: of a local part made of a name and the prefix "De", the name
\* alone has been returned.
C4_Witness ==
    /\ pc = "done"
    /\ Len(BeforeAt(email_text)) > 3
    /\ \E n \in 1..Len(Pieces(BeforeAt(email_text))) :
          Pieces(BeforeAt(email_text))[n] = <<"D", "e">>
    /\ Len(names) = 1

-----------------------------------------------------------------------------
(* Properties of the request boundary *)

\* whether a request breaks the contract of its endpoint
ViolatesContract(r) ==
    \/ r.json = "null"
    \/ "text" \notin r.keys
    \/ r.endpoint = "/api/cross-reference" /\ "findings" \notin r.keys
    \/ r.text_len > 2097152

\* C8 as stated: a request without a required field, or with a text beyond
\* 2 MiB, is answered with an error and nothing is computed for it, at each
\* of the three endpoints.
C8_ViolationsRejected ==
    (pc = "done" /\ ViolatesContract(request)) =>
        (response.status = 400 /\ ~processed)

\* C9 as stated: the response to a request whose analyzer or de-identifier
\* raised carries nothing of the exception.
C9_FailureIsGeneric ==
    (pc = "done" /\ response.status = 500) =>
        \A e \in ExceptionTexts : e \notin Range(response.error)

====
